---- MODULE Spec2Model ----
(***************************************************************************)
(* A model of c7n/resources/org.py: the organization hierarchy walk        *)
(* (AccountHierarchy, the "ou" filter) and the per-account fan-out         *)
(* (OrgAccess.get_org_session, account_session, ProcessAccountSet).        *)
(***************************************************************************)
EXTENDS Integers, Sequences, FiniteSets, TLC

\* ---------------------------------------------------------------- bounds
NumGroups == 3
MaxAccounts == 2
MaxRoots == 2
MaxInvocations == 2
MaxBatches == 2

\* ------------------------------------------------------ program constants
\* executor_factory(max_workers=8)
max_workers_doubled == 8 + 8
max_workers == 8

\* ------------------------------------------------------------- identifiers
GroupId(i) == "ou-" \o ToString(i)
AccountId(i) == "acct-" \o ToString(i)
Groups == {GroupId(i) : i \in 1..NumGroups}
AccountIds == {AccountId(i) : i \in 1..MaxAccounts}
AllGroupsSeq == [i \in 1..NumGroups |-> GroupId(i)]
AllAccountsSeq == [i \in 1..MaxAccounts |-> AccountId(i)]

Range(s) == {s[i] : i \in DOMAIN s}
Reverse(s) == [i \in 1..Len(s) |-> s[Len(s) + 1 - i]]
SeqsUpTo(S, n) == UNION {[1..k -> S] : k \in 0..n}

\* An account record as the listing collaborator returns it.
Account(id) == [Id |-> id, Name |-> "name-" \o id]

\* --------------------------------------------------------------- strings
\* A configured role string is a sequence of tokens; "arn" and
\* "{org_account_id}" are the two tokens the code looks for.
Placeholder == "{org_account_id}"
DefaultRole == <<"OrganizationAccountAccessRole">>
ArnTemplate == <<"arn", ":aws:iam::", Placeholder, ":role/Audit">>
ArnFixed == <<"arn", ":aws:iam::", "000000000000", ":role/Audit">>
\* A replacement field str.format is given no value for.
UnknownField == "{account_id}"
ArnMalformed == <<"arn", ":aws:iam::", UnknownField, ":role/Audit">>
\* The default role when AWS_CONTROL_TOWER_ORG is set in the environment.
ControlTowerRole == <<"AWSControlTowerExecution">>
\* The values a query block gives "org-account-role".
ConfiguredRoles == {ArnTemplate, ArnFixed, ArnMalformed}

\* OrgAccount.parse_query: account_config["org-account-role"], given whether
\* the query block has the key, its value, and whether the environment has
\* AWS_CONTROL_TOWER_ORG.
parse_query(configured, role, control_tower) ==
    IF configured THEN role
    ELSE IF control_tower THEN ControlTowerRole
    ELSE DefaultRole

RoleConfigs ==
    {parse_query(c, r, ct) : c \in BOOLEAN, r \in ConfiguredRoles, ct \in BOOLEAN}

RECURSIVE Join(_)
Join(tokens) == IF tokens = <<>> THEN "" ELSE Head(tokens) \o Join(Tail(tokens))

\* role.startswith("arn")
StartsWithArn(role) == Len(role) >= 1 /\ role[1] = "arn"

\* role.format(org_account_id=id)
Format(role, id) ==
    Join([k \in DOMAIN role |-> IF role[k] = Placeholder THEN id ELSE role[k]])

\* role.format(org_account_id=id) raises KeyError on a replacement field
\* other than org_account_id.
FormatRaises(role) == \E k \in DOMAIN role : role[k] = UnknownField

EmptyMap == <<>>
Put(map, k, v) == (k :> v) @@ map

\* The threads that call process_account_set; ACCOUNT_SESSION is
\* threading.local, one org_accounts dict per thread.
CallerThreads == {"MainThread"}

\* The "regions" entry of the filter's data, which may be missing.
RegionConfigs ==
    {[present |-> FALSE, regions |-> <<>>],
     [present |-> TRUE, regions |-> <<>>],
     [present |-> TRUE, regions |-> <<"east", "west">>]}

\* What one call of the per-account-region operation does: return a value
\* or raise an Exception.
OpValues == {TRUE, FALSE}
OpOutcomes ==
    {[raised |-> FALSE, value |-> v] : v \in OpValues}
        \cup {[raised |-> TRUE, value |-> FALSE]}

VARIABLES
    ouChildren,     \* organizations: group id -> set of child group ids
    acctChildren,   \* organizations: group id -> set of child account ids
    units,          \* the "ou" filter's self.data["units"], a list
    resources,      \* the account records handed to a filter
    ouTrace,        \* one record per OrganizationUnit.process invocation
    acctQuery,      \* the last direct get_accounts_for_ous call, or NoQuery
    org_access_role,  \* whether the query block configures "org-access-role"
    lambda_member,  \* LAMBDA_TASK_ROOT is set and mode has a member-role
    account_role,   \* manager.account_config["org-account-role"]
    regions_data,   \* self.data "regions", when present
    org_session,    \* OrgAccess.org_session of the manager, or None
    orgLog,         \* get_org_session: computations tried, done, handles returned
    ACCOUNT_SESSION,  \* thread -> that thread's org_accounts dict
    assumeLog,      \* <<thread, role>> -> assumed_session calls made and succeeded
    handed,         \* <<thread, role, handle>> of every account_session return
    pc,             \* where process_account_set stands
    thread,         \* the thread running process_account_set
    batches,        \* process_account_set invocations so far
    idx,            \* position of the submit loop in resources
    futures,        \* the submitted tasks, in submission order
    identityFailed, \* positions whose account_session raised ClientError
    consumed,       \* futures already yielded by as_completed
    account_results, \* the dict process_account_set builds
    faults,         \* whether anything in this run fails or comes back False
    roleCall,       \* the last role identifier computed on its own, or NoCall
    sessionCall,    \* the last direct account_session call, or NoCall
    fresources,     \* the list StackFilter.process returned, once it has
    ouWalk          \* get_ous_for_roots taken one loop iteration at a time

ouVars == <<ouChildren, acctChildren, units, ouTrace, acctQuery>>
configVars == <<org_access_role, lambda_member, account_role, regions_data,
                faults>>
sessionVars == <<org_session, orgLog, ACCOUNT_SESSION, assumeLog, handed>>
batchVars == <<pc, thread, batches, idx, futures, identityFailed, consumed,
               account_results>>
callVars == <<roleCall, sessionCall, ouWalk, fresources>>
vars == <<ouVars, resources, configVars, sessionVars, batchVars, callVars>>

\* A session handle: the role it is bound to, the thread that created it,
\* the name of the session it was assumed from, and which of that thread's
\* successful assumptions of that role it is.  Two handles are the same
\* object exactly when they are equal.
Handle(role, by, n, parent) == [role |-> role, by |-> by, n |-> n, parent |-> parent]
HandleName(h) == h.role \o "#" \o h.by \o "#" \o ToString(h.n)
None == Handle("None", "None", 0, "None")

NoQuery == [called |-> FALSE]
NoCall == [called |-> FALSE]
NoWalk == [pc |-> "idle", calls |-> 0, roots |-> <<>>, folders |-> {}]

\* No function is being exercised on its own.
IdleCalls ==
    /\ roleCall = NoCall
    /\ sessionCall = NoCall
    /\ ouWalk = NoWalk
    /\ fresources = <<>>

\* ------------------------------------------------------ AccountHierarchy
\* client.get_paginator("list_children").paginate(ParentId, ChildType):
\* the children of all pages, in listing order.
ListChildren(parent, childType) ==
    IF childType = "ORGANIZATIONAL_UNIT"
    THEN LET IsChild(g) == g \in ouChildren[parent]
         IN SelectSeq(AllGroupsSeq, IsChild)
    ELSE LET IsChild(a) == a \in acctChildren[parent]
         IN SelectSeq(AllAccountsSeq, IsChild)

\* get_accounts_for_ous: the direct account children of each given ou.
get_accounts_for_ous_recursing(ous) ==
    UNION {Range(ListChildren(o, "ACCOUNT")) : o \in ous}
      \cup UNION {UNION {Range(ListChildren(c, "ACCOUNT")) : c \in ouChildren[o]} : o \in ous}

get_accounts_for_ous(ous) ==
    UNION {Range(ListChildren(o, "ACCOUNT")) : o \in ous}

\* The while loop of get_ous_for_roots: roots is the list being popped and
\* extended in place, folders the accumulated set.
RECURSIVE WalkRoots(_, _)
WalkRoots(roots, folders) ==
    IF roots = <<>>
    THEN [roots |-> roots, folders |-> folders]
    ELSE LET r == Head(roots)
             kids == ListChildren(r, "ORGANIZATIONAL_UNIT")
         IN WalkRoots(Tail(roots) \o kids, folders \cup Range(kids))

\* get_ous_for_roots: folders is the returned set, roots the state in which
\* the caller's list object is left.
get_ous_for_roots_no_descent(roots) ==
    [roots |-> <<>>,
     folders |-> Range(roots)
         \cup UNION {Range(ListChildren(r, "ORGANIZATIONAL_UNIT")) : r \in Range(roots)}]

get_ous_for_roots(roots) ==
    WalkRoots(roots, Range(roots))

\* ------------------------------------------------------ OrganizationUnit
\* The filtering loop of OrganizationUnit.process.
FilterResources_reversed(rs, account_ids) ==
    LET Keep(r) == r.Id \in account_ids
    IN Reverse(SelectSeq(rs, Keep))

FilterResources(rs, account_ids) ==
    LET Keep(r) == r.Id \in account_ids
    IN SelectSeq(rs, Keep)

\* OrganizationUnit.process(resources): self.data["units"] is the list
\* object handed to get_ous_for_roots.
OuProcess ==
    /\ Len(ouTrace) < MaxInvocations
    /\ acctQuery = NoQuery
    /\ LET walk == get_ous_for_roots(units)
           ous == walk.folders
           account_ids == get_accounts_for_ous(ous)
           results == FilterResources(resources, account_ids)
       IN /\ units' = walk.roots
          /\ ouTrace' = Append(ouTrace,
                 [roots |-> units, ous |-> ous,
                  account_ids |-> account_ids, results |-> results])
    /\ UNCHANGED <<ouChildren, acctChildren, resources, acctQuery>>
    /\ UNCHANGED <<configVars, sessionVars, batchVars, callVars>>

\* A direct call of get_accounts_for_ous on one group, made at most once in
\* a behaviour and before the filter runs.
QueryAccounts ==
    /\ ouTrace = <<>>
    /\ acctQuery = NoQuery
    /\ \E o \in Groups :
           acctQuery' = [called |-> TRUE, ous |-> {o},
                         account_ids |-> get_accounts_for_ous({o})]
    /\ UNCHANGED <<ouChildren, acctChildren, units, resources, ouTrace>>
    /\ UNCHANGED <<configVars, sessionVars, batchVars, callVars>>

\* The fan-out part at rest: nothing configured, nothing run.
IdleBatch ==
    /\ org_access_role = FALSE
    /\ lambda_member = FALSE
    /\ account_role = DefaultRole
    /\ regions_data = [present |-> FALSE, regions |-> <<>>]
    /\ org_session = None
    /\ orgLog = [tried |-> 0, done |-> 0, returned |-> {}]
    /\ ACCOUNT_SESSION = [t \in CallerThreads |-> EmptyMap]
    /\ assumeLog = EmptyMap
    /\ handed = {}
    /\ pc = "idle"
    /\ thread = "MainThread"
    /\ batches = 0
    /\ idx = 1
    /\ futures = <<>>
    /\ identityFailed = {}
    /\ consumed = {}
    /\ account_results = EmptyMap

\* Hierarchies are forests: every group and every account has at most one
\* parent, and a group's parent precedes it.
GroupParents == {p \in [1..NumGroups -> 0..NumGroups] : \A i \in 1..NumGroups : p[i] < i}
AccountParents == [1..MaxAccounts -> 0..NumGroups]

InitOu ==
    /\ \E p \in GroupParents :
           ouChildren = [g \in Groups |->
               {GroupId(c) : c \in {c \in 1..NumGroups : GroupId(p[c]) = g}}]
    /\ \E p \in AccountParents :
           acctChildren = [g \in Groups |->
               {AccountId(a) : a \in {a \in 1..MaxAccounts : GroupId(p[a]) = g}}]
    /\ units \in SeqsUpTo(Groups, MaxRoots)
    /\ \E ids \in {AllAccountsSeq, Reverse(AllAccountsSeq)} :
           resources = [i \in DOMAIN ids |-> Account(ids[i])]
    /\ ouTrace = <<>>
    /\ acctQuery = NoQuery
    /\ faults = TRUE
    /\ IdleBatch
    /\ IdleCalls

NextOu ==
    \/ OuProcess
    \/ QueryAccounts

SpecOu == InitOu /\ [][NextOu]_vars

\* ------------------------------------------------- hierarchy properties
\* The groups reachable from S through group-typed child links, S included.
RECURSIVE GroupClosure(_)
GroupClosure(S) ==
    LET N == S \cup UNION {ouChildren[g] : g \in S}
    IN IF N = S THEN S ELSE GroupClosure(N)

\* The accounts that are direct children of some group of S.
DirectAccounts(S) == {a \in AccountIds : \E g \in S : a \in acctChildren[g]}

\* The position of the record with this id in the candidate list.
PositionOf(id) == CHOOSE i \in DOMAIN resources : resources[i].Id = id

\* C8: get_ous_for_roots returns exactly the roots together with every
\* group reachable from a root through group-typed child links.
C8_GroupExpansion ==
    \A i \in DOMAIN ouTrace :
        ouTrace[i].ous = GroupClosure(Range(ouTrace[i].roots))

\* A walk from a root that has an account child, a group child and a group
\* grandchild: the result holds the three groups.
C8_Witness ==
    \E i \in DOMAIN ouTrace :
        \E r \in Range(ouTrace[i].roots) : \E a \in ouChildren[r] : \E c \in ouChildren[a] :
            /\ acctChildren[r] # {}
            /\ c \notin Range(ouTrace[i].roots)
            /\ {r, a, c} \subseteq ouTrace[i].ous

\* C9: two invocations of the "ou" filter on an unchanged hierarchy walk
\* to the same set of groups and select the same accounts.
C9_IdempotentReExpansion ==
    \A i, j \in DOMAIN ouTrace :
        /\ ouTrace[i].ous = ouTrace[j].ous
        /\ ouTrace[i].results = ouTrace[j].results

\* C10: the filter returns, in input order, exactly the candidates that
\* are direct account children of a group in the closure of the roots it
\* passed; get_accounts_for_ous lists direct account children only.
C10_ComposedSelection ==
    /\ \A i \in DOMAIN ouTrace :
           LET res == ouTrace[i].results
               selected == DirectAccounts(GroupClosure(Range(ouTrace[i].roots)))
           IN /\ {res[k].Id : k \in DOMAIN res} =
                     {r.Id : r \in Range(resources)} \cap selected
              /\ \A k \in DOMAIN res : res[k] \in Range(resources)
              /\ \A k, l \in DOMAIN res :
                     k < l => PositionOf(res[k].Id) < PositionOf(res[l].Id)
    /\ acctQuery.called =>
           acctQuery.account_ids = DirectAccounts(acctQuery.ous)

\* From a candidate list given in descending id order the filter kept a
\* candidate that sits under a descendant group (not a root) and dropped
\* another candidate that sits under no walked group.
C10_Witness ==
    \E i \in DOMAIN ouTrace :
        /\ Len(ouTrace[i].results) >= 1
        /\ \E g \in ouTrace[i].ous \ Range(ouTrace[i].roots) :
               ouTrace[i].results[1].Id \in acctChildren[g]
        /\ \E r \in Range(resources) : r.Id \notin ouTrace[i].account_ids
        /\ resources[1].Id = AccountId(MaxAccounts)

\* ------------------------------------------------------------ sessions
OrgAccessRoleArn == "arn:aws:iam::root:role/OrgAccess"

\* c7n.utils.local_session(session_factory): the execution identity.
local_session == Handle("local", "-", 1, "None")

\* c7n.credentials.assumed_session, when the credential provider accepts:
\* the n-th handle thread t obtains for role_arn, assumed from session.
assumed_session(role_arn, session, t, n) ==
    Handle(role_arn, t, n, HandleName(session))

\* OrgAccess.get_org_session on thread t.  ok: the credential provider
\* accepts the assumption of the org access role; n numbers the handle.
get_org_session_no_memo(cur, t, ok, n) ==
    IF org_access_role /\ ~lambda_member
    THEN IF ok
         THEN [raised |-> FALSE, computed |-> TRUE,
               org_session |-> assumed_session(OrgAccessRoleArn, local_session, t, n)]
         ELSE [raised |-> TRUE, computed |-> TRUE, org_session |-> cur]
    ELSE [raised |-> FALSE, computed |-> TRUE, org_session |-> local_session]

get_org_session(cur, t, ok, n) ==
    IF cur # None
    THEN [raised |-> FALSE, computed |-> FALSE, org_session |-> cur]
    ELSE IF org_access_role /\ ~lambda_member
    THEN IF ok
         THEN [raised |-> FALSE, computed |-> TRUE,
               org_session |-> assumed_session(OrgAccessRoleArn, local_session, t, n)]
         ELSE [raised |-> TRUE, computed |-> TRUE, org_session |-> cur]
    ELSE [raised |-> FALSE, computed |-> TRUE, org_session |-> local_session]

\* The role identifier account_session computes (lines 331-334).
ResolveRole(role, id) ==
    IF StartsWithArn(role)
    THEN Format(role, id)
    ELSE "arn:aws:iam::" \o id \o ":role/" \o Join(role)

\* Whether computing the role identifier raises: only the "arn" branch
\* calls format.
ResolveRaises_lenient(role) == FALSE
ResolveRaises(role) == StartsWithArn(role) /\ FormatRaises(role)

\* account_session(org_session, account, role) on a thread whose
\* org_accounts dict is cache.  ok: the credential provider accepts; n
\* numbers the handle.  raised stands for the ClientError of a rejection,
\* keyerror for the KeyError of format, raised before the dict is read.
account_session_no_lookup(org, account, role, cache, t, ok, n) ==
    LET arn == ResolveRole(role, account.Id)
    IN IF ResolveRaises(role)
       THEN [raised |-> FALSE, keyerror |-> TRUE, assumed |-> FALSE,
             role |-> arn, session |-> None, org_accounts |-> cache]
       ELSE IF ok
       THEN LET s == assumed_session(arn, org, t, n)
            IN [raised |-> FALSE, keyerror |-> FALSE, assumed |-> TRUE, role |-> arn,
                session |-> s,
                org_accounts |-> Put(cache, arn, s)]
       ELSE [raised |-> TRUE, keyerror |-> FALSE, assumed |-> TRUE, role |-> arn,
             session |-> None,
             org_accounts |-> cache]

account_session(org, account, role, cache, t, ok, n) ==
    LET arn == ResolveRole(role, account.Id)
    IN IF ResolveRaises(role)
       THEN [raised |-> FALSE, keyerror |-> TRUE, assumed |-> FALSE,
             role |-> arn, session |-> None, org_accounts |-> cache]
       ELSE IF arn \in DOMAIN cache
       THEN [raised |-> FALSE, keyerror |-> FALSE, assumed |-> FALSE, role |-> arn,
             session |-> cache[arn], org_accounts |-> cache]
       ELSE IF ok
       THEN LET s == assumed_session(arn, org, t, n)
            IN [raised |-> FALSE, keyerror |-> FALSE, assumed |-> TRUE, role |-> arn,
                session |-> s,
                org_accounts |-> Put(cache, arn, s)]
       ELSE [raised |-> TRUE, keyerror |-> FALSE, assumed |-> TRUE, role |-> arn,
             session |-> None,
             org_accounts |-> cache]

\* The assumed_session calls thread t made for role arn: tried and ok.
AssumeCount(t, arn) ==
    IF <<t, arn>> \in DOMAIN assumeLog
    THEN assumeLog[<<t, arn>>]
    ELSE [tried |-> 0, ok |-> 0]

\* ----------------------------------------------------- ProcessAccountSet
\* resolve_regions: data.get("regions", ("us-east-1",))
resolve_regions ==
    IF regions_data.present THEN regions_data.regions ELSE <<"us-east-1">>

\* A submitted task: futures[w.submit(self.process_account, a, s)] = a.
\* acct is the position of a in resources; log lists the calls of
\* process_account_region the task made and what each did.
NewFuture(i, s) ==
    [acct |-> i, session |-> s, state |-> "queued", ridx |-> 1,
     region_results |-> EmptyMap, log |-> <<>>]

\* The except ClientError branch of the submit loop: log and continue.
OnClientError_propagate == "raised"

OnClientError == "continue"

\* The futures dict after the loop body ran for position i.
SubmitOutcome_always(futs, i, call) ==
    Append(futs, NewFuture(i, call.session))

SubmitOutcome(futs, i, call) ==
    IF call.raised THEN futs ELSE Append(futs, NewFuture(i, call.session))

\* One pass of the region loop of process_account for region r: the try
\* around process_account_region and its except Exception branch.
RegionStep_escaping(f, r, outcome) ==
    IF outcome.raised
    THEN [f EXCEPT !.state = "failed",
                   !.log = Append(@, [region |-> r, raised |-> TRUE, value |-> FALSE])]
    ELSE [f EXCEPT !.region_results = Put(@, r, outcome.value),
                   !.log = Append(@, [region |-> r, raised |-> FALSE,
                                      value |-> outcome.value]),
                   !.ridx = @ + 1]

RegionStep(f, r, outcome) ==
    [f EXCEPT !.region_results = Put(@, r, IF outcome.raised THEN FALSE ELSE outcome.value),
              !.log = Append(@, [region |-> r, raised |-> outcome.raised,
                                 value |-> outcome.value]),
              !.ridx = @ + 1]

\* return region_results, once the loop is exhausted.
FinishIfExhausted(f) ==
    IF f.state = "running" /\ f.ridx > Len(resolve_regions)
    THEN [f EXCEPT !.state = "done"]
    ELSE f

\* The body of the as_completed loop for future f.
FoldFuture_truthy(results, f) ==
    IF f.state = "failed" \/ \E r \in DOMAIN f.region_results : f.region_results[r] = FALSE
    THEN results
    ELSE Put(results, resources[f.acct].Id, f.region_results)

FoldFuture_keep_failed(results, f) ==
    Put(results, resources[f.acct].Id, f.region_results)

FoldFuture_latest_only(results, f) ==
    IF f.state = "failed"
    THEN results
    ELSE Put(EmptyMap, resources[f.acct].Id, f.region_results)

FoldFuture(results, f) ==
    IF f.state = "failed"
    THEN results
    ELSE Put(results, resources[f.acct].Id, f.region_results)

\* Each started task that has not ended occupies one pool thread of its own.
Running == {k \in DOMAIN futures : futures[k].state \in {"entry", "running"}}
Queued == {k \in DOMAIN futures : futures[k].state = "queued"}
Min(S) == CHOOSE x \in S : \A y \in S : x <= y

\* What the environment may do in this run: whether a credential provider
\* accepts, whether a call made outside the region try raises, and what the
\* per-account-region operation does.
Accepts == IF faults THEN BOOLEAN ELSE {TRUE}
Escapes == IF faults THEN BOOLEAN ELSE {FALSE}
Outcomes == IF faults THEN OpOutcomes ELSE {[raised |-> FALSE, value |-> TRUE]}

\* process_account_set up to the submit loop: account_results = {} and
\* org_session = self.manager.get_org_session().
BeginBatch ==
    /\ pc \in {"idle", "returned", "raised"}
    /\ batches < MaxBatches
    /\ \E t \in CallerThreads, ok \in Accepts :
           LET g == get_org_session(org_session, t, ok, orgLog.done + 1)
               n == IF g.computed THEN 1 ELSE 0
           IN /\ thread' = t
              /\ org_session' = g.org_session
              /\ orgLog' = [tried |-> orgLog.tried + n,
                            done |-> orgLog.done + (IF g.raised THEN 0 ELSE n),
                            returned |-> orgLog.returned
                                \cup (IF g.raised THEN {} ELSE {g.org_session})]
              /\ pc' = IF g.raised THEN "raised"
                       ELSE IF resources = <<>> THEN "gather" ELSE "submit"
    /\ batches' = batches + 1
    /\ idx' = 1
    /\ futures' = <<>>
    /\ identityFailed' = {}
    /\ consumed' = {}
    /\ account_results' = EmptyMap
    /\ UNCHANGED <<callVars, ouVars, resources, configVars, ACCOUNT_SESSION, assumeLog, handed>>

\* One iteration of "for a in resources": account_session, then submit or,
\* on ClientError, log and continue.  Any other exception of
\* account_session leaves process_account_set.
SubmitAccount ==
    /\ pc = "submit"
    /\ idx <= Len(resources)
    /\ \E ok \in Accepts :
           LET a == resources[idx]
               arn == ResolveRole(account_role, a.Id)
               cnt == AssumeCount(thread, arn)
               call == account_session(org_session, a, account_role,
                                       ACCOUNT_SESSION[thread], thread, ok, cnt.ok + 1)
               made == IF call.assumed THEN 1 ELSE 0
           IN IF call.keyerror
              THEN /\ ok
                   /\ pc' = "raised"
                   /\ UNCHANGED <<ACCOUNT_SESSION, assumeLog, handed,
                                  identityFailed, futures, idx>>
              ELSE /\ ACCOUNT_SESSION' =
                          [ACCOUNT_SESSION EXCEPT ![thread] = call.org_accounts]
                   /\ assumeLog' = Put(assumeLog, <<thread, arn>>,
                          [tried |-> cnt.tried + made,
                           ok |-> cnt.ok + (IF call.raised THEN 0 ELSE made)])
                   /\ handed' = IF call.raised THEN handed
                                ELSE handed \cup {<<thread, arn, call.session>>}
                   /\ identityFailed' = IF call.raised THEN identityFailed \cup {idx}
                                        ELSE identityFailed
                   /\ futures' = SubmitOutcome(futures, idx, call)
                   /\ pc' = IF call.raised /\ OnClientError # "continue"
                            THEN "raised"
                            ELSE IF idx = Len(resources) THEN "gather" ELSE "submit"
                   /\ idx' = idx + 1
    /\ UNCHANGED <<callVars, ouVars, resources, configVars, org_session, orgLog, thread,
                   batches, consumed, account_results>>

\* A pool thread takes the oldest queued task and calls process_account;
\* the task stands at the entry of process_account.
TaskStart ==
    /\ Queued # {}
    /\ Cardinality(Running) < max_workers
    /\ LET k == Min(Queued)
       IN futures' = [futures EXCEPT ![k] = [@ EXCEPT !.state = "entry"]]
    /\ UNCHANGED <<callVars, ouVars, resources, configVars, sessionVars, pc, thread,
                   batches, idx, identityFailed, consumed, account_results>>

\* A started task passes the entry of process_account on its own thread:
\* the log.info call and resolve_regions run outside any try, so a failure
\* there escapes the task; with no region to process the task is done.
TaskEnter ==
    /\ \E k \in DOMAIN futures :
           /\ futures[k].state = "entry"
           /\ \E escapes \in Escapes :
                  futures' = [futures EXCEPT ![k] =
                      IF escapes
                      THEN [@ EXCEPT !.state = "failed"]
                      ELSE FinishIfExhausted([@ EXCEPT !.state = "running"])]
    /\ UNCHANGED <<callVars, ouVars, resources, configVars, sessionVars, pc, thread,
                   batches, idx, identityFailed, consumed, account_results>>

\* A running task processes its next region.
TaskRegion ==
    /\ \E k \in DOMAIN futures :
           /\ futures[k].state = "running"
           /\ \E outcome \in Outcomes :
                  futures' = [futures EXCEPT ![k] =
                      FinishIfExhausted(
                          RegionStep(@, resolve_regions[futures[k].ridx], outcome))]
    /\ UNCHANGED <<callVars, ouVars, resources, configVars, sessionVars, pc, thread, batches,
                   idx, identityFailed, consumed, account_results>>

\* As GatherFuture, were results gathered while the submit loop still runs.
GatherFuture_eager ==
    /\ pc \in {"submit", "gather"}
    /\ \E k \in DOMAIN futures \ consumed :
           /\ futures[k].state \in {"done", "failed"}
           /\ consumed' = consumed \cup {k}
           /\ account_results' = FoldFuture(account_results, futures[k])
    /\ UNCHANGED <<callVars, ouVars, resources, configVars, sessionVars, pc, thread,
                   batches, idx, futures, identityFailed>>

\* as_completed yields a finished future; its result is folded.
GatherFuture ==
    /\ pc = "gather"
    /\ \E k \in DOMAIN futures \ consumed :
           /\ futures[k].state \in {"done", "failed"}
           /\ consumed' = consumed \cup {k}
           /\ account_results' = FoldFuture(account_results, futures[k])
    /\ UNCHANGED <<callVars, ouVars, resources, configVars, sessionVars, pc, thread, batches,
                   idx, futures, identityFailed>>

\* As ReturnBatch, were the dict returned without waiting for the tasks
\* that have not finished.
ReturnBatch_nowait ==
    /\ pc = "gather"
    /\ \A k \in DOMAIN futures \ consumed : futures[k].state \notin {"done", "failed"}
    /\ pc' = "returned"
    /\ UNCHANGED <<callVars, ouVars, resources, configVars, sessionVars, thread,
                   batches, idx, futures, identityFailed, consumed, account_results>>

\* as_completed is exhausted, the executor is shut down, the dict returned.
ReturnBatch ==
    /\ pc = "gather"
    /\ consumed = DOMAIN futures
    /\ pc' = "returned"
    /\ UNCHANGED <<callVars, ouVars, resources, configVars, sessionVars, thread, batches,
                   idx, futures, identityFailed, consumed, account_results>>

\* StackFilter.process after process_account_set returned: every account
\* with a result that has a truthy region is annotated, in place, with the
\* truthy entries of its region map, and the annotated accounts are
\* returned in the order of resources.
annotation == "c7n:cfn-stack"
Truthy(region_results) == {rk \in DOMAIN region_results : region_results[rk]}
StackProcess ==
    /\ pc = "returned"
    /\ LET results == account_results
           Keep(r) == r.Id \in DOMAIN results /\ Truthy(results[r.Id]) # {}
           Annotated(r) ==
               Put(r, annotation,
                   [rk \in Truthy(results[r.Id]) |-> results[r.Id][rk]])
           marked == [i \in DOMAIN resources |->
                         IF Keep(resources[i]) THEN Annotated(resources[i])
                         ELSE resources[i]]
       IN /\ resources' = marked
          /\ fresources' = SelectSeq(marked, Keep)
    /\ pc' = "filtered"
    /\ UNCHANGED <<roleCall, sessionCall, ouWalk, ouVars, configVars, sessionVars,
                   thread, batches, idx, futures, identityFailed, consumed,
                   account_results>>

\* A manager and a filter as configured, before any batch.  The
\* configurations drawn: any account role with no org access role and at
\* most one region; an org access role with the default account role and
\* at most one region; several regions with the default account role and
\* no org access role.
InitBatch ==
    /\ ouChildren = [g \in Groups |-> {}]
    /\ acctChildren = [g \in Groups |-> {}]
    /\ units = <<>>
    /\ ouTrace = <<>>
    /\ acctQuery = NoQuery
    /\ \E n \in 0..MaxAccounts : resources = [i \in 1..n |-> Account(AccountId(i))]
    /\ org_access_role \in BOOLEAN
    /\ lambda_member \in BOOLEAN
    /\ org_access_role \/ ~lambda_member
    /\ account_role \in RoleConfigs
    /\ regions_data \in RegionConfigs
    /\ org_access_role => account_role = DefaultRole
    /\ Len(regions_data.regions) > 1 =>
           ~org_access_role /\ account_role = DefaultRole
    /\ faults = TRUE
    /\ IdleCalls
    /\ org_session = None
    /\ orgLog = [tried |-> 0, done |-> 0, returned |-> {}]
    /\ ACCOUNT_SESSION = [t \in CallerThreads |-> EmptyMap]
    /\ assumeLog = EmptyMap
    /\ handed = {}
    /\ pc = "idle"
    /\ thread = "MainThread"
    /\ batches = 0
    /\ idx = 1
    /\ futures = <<>>
    /\ identityFailed = {}
    /\ consumed = {}
    /\ account_results = EmptyMap

NextBatch ==
    \/ BeginBatch
    \/ SubmitAccount
    \/ TaskStart
    \/ TaskEnter
    \/ TaskRegion
    \/ GatherFuture
    \/ ReturnBatch
    \/ StackProcess

Spec == InitBatch /\ [][NextBatch]_vars

\* --------------------------------------------------- fan-out properties
FailureMarker == FALSE
Regions == resolve_regions
IdOf(k) == resources[futures[k].acct].Id
\* The positions of resources whose account_session call returned a handle.
ResolvedPositions == {i \in 1..(idx - 1) : i \notin identityFailed}
HasRaise(f) == \E j \in DOMAIN f.log : f.log[j].raised

\* C1: a raise of the per-account-region operation is recorded as the
\* failure marker of that region and never ends the task: the operation is
\* called for the regions in order, a task that entered its region loop
\* finishes with one recorded outcome per configured region, and when the
\* batch returns every such task of every resolved account has finished.
C1_RegionFailureIsolated ==
    \A k \in DOMAIN futures :
        LET f == futures[k]
        IN /\ f.state = "failed" => f.log = <<>>
           /\ Len(f.log) <= Len(Regions)
           /\ \A j \in DOMAIN f.log :
                  /\ f.log[j].region = Regions[j]
                  /\ f.log[j].region \in DOMAIN f.region_results
                  /\ f.log[j].raised =>
                         f.region_results[f.log[j].region] = FailureMarker
                  /\ ~f.log[j].raised =>
                         f.region_results[f.log[j].region] = f.log[j].value
           /\ f.state = "done" => Len(f.log) = Len(Regions)
           /\ pc = "returned" => f.state \in {"done", "failed"}

\* A returned batch of two resolved accounts: for the first the operation
\* raised in the first region and returned in the second, for the other it
\* returned in every region, and both region maps were folded.
C1_Witness ==
    /\ pc = "returned"
    /\ Len(futures) = 2
    /\ Len(Regions) = 2
    /\ Len(futures[1].log) = 2
    /\ futures[1].log[1].raised /\ ~futures[1].log[2].raised
    /\ ~HasRaise(futures[2]) /\ futures[2].state = "done"
    /\ account_results[IdOf(1)] =
           (Regions[1] :> FailureMarker) @@ (Regions[2] :> TRUE)
    /\ account_results[IdOf(2)] = (Regions[1] :> TRUE) @@ (Regions[2] :> TRUE)

\* C2: account_results has at most one key per input account, every key
\* is the id of an account whose account_session call returned and whose
\* task was gathered, and an account whose account_session call raised has
\* no key, no task and hence no operation call.
C2_OnlyResolvedTargets ==
    /\ Cardinality(DOMAIN account_results) <= Len(resources)
    /\ \A id \in DOMAIN account_results :
           \E k \in consumed :
               /\ IdOf(k) = id
               /\ futures[k].acct \in ResolvedPositions
               /\ account_results[id] = futures[k].region_results
    /\ \A k, l \in DOMAIN futures : futures[k].acct = futures[l].acct => k = l
    /\ \A i \in identityFailed :
           /\ resources[i].Id \notin DOMAIN account_results
           /\ \A k \in DOMAIN futures : futures[k].acct # i

\* A returned batch in which the first account was rejected and the second
\* was resolved: the result has the second account's id as its only key.
C2_Witness ==
    /\ pc = "returned"
    /\ Len(resources) = 2
    /\ identityFailed = {1}
    /\ DOMAIN account_results = {resources[2].Id}

\* The query block or the filter leaves an entry out, or gives a role
\* template format cannot fill.
ConfigMissing == ~regions_data.present
ConfigMalformed == account_role = ArnMalformed

\* A batch in flight can always take a step, and when it returns the submit
\* loop has visited every account, each one was rejected or got a task, and
\* every task has run to its end and was gathered.
BatchContinues ==
    /\ pc \in {"submit", "gather"} =>
           \/ ENABLED SubmitAccount
           \/ ENABLED TaskStart
           \/ ENABLED TaskEnter
           \/ ENABLED TaskRegion
           \/ ENABLED GatherFuture
           \/ ENABLED ReturnBatch
    /\ pc = "returned" =>
           /\ idx = Len(resources) + 1
           /\ \A i \in 1..Len(resources) :
                  i \in identityFailed \/ \E k \in DOMAIN futures : futures[k].acct = i
           /\ consumed = DOMAIN futures
           /\ \A k \in DOMAIN futures : futures[k].state \in {"done", "failed"}

\* C3: process_account_set raises to its caller only for a missing or
\* malformed role or region configuration; no other failure makes it
\* raise, and the batch goes on over the remaining accounts and returns.
C3_OnlyConfigurationAborts ==
    /\ pc = "raised" => ConfigMissing \/ ConfigMalformed
    /\ BatchContinues

\* C3, amended: process_account_set raises to its caller only because
\* get_org_session raised, before the submit loop visited any account, or
\* because account_session met a role template format cannot fill, at the
\* first account; a rejected account_session call, a raising operation or
\* a failed task never makes it raise, and the batch goes on over the
\* remaining accounts and returns.
C3_NoBatchAbort ==
    /\ pc = "raised" =>
           /\ identityFailed = {} /\ futures = <<>> /\ idx = 1
           /\ \/ org_session = None
              \/ ConfigMalformed /\ resources # <<>>
    /\ BatchContinues

\* A returned batch in which the first account was rejected and the task
\* of the second failed outside its region loop.
C3_Witness ==
    /\ pc = "returned"
    /\ Len(resources) = 2
    /\ identityFailed = {1}
    /\ Len(futures) = 1
    /\ futures[1].acct = 2
    /\ futures[1].state = "failed"

\* C4 as claimed: when the batch returns, every account whose
\* account_session call returned has a region map with one entry per
\* configured region.
C4_EveryResolvedTargetComplete ==
    pc = "returned" =>
        \A i \in ResolvedPositions :
            /\ resources[i].Id \in DOMAIN account_results
            /\ DOMAIN account_results[resources[i].Id] = Range(Regions)

\* C4, amended: when the batch returns, every resolved account whose task
\* did not fail has a region map with exactly one entry per configured
\* region, which is the operation's value or the failure marker.
C4_CompleteUnlessTaskFailed ==
    pc = "returned" =>
        /\ \A i \in ResolvedPositions : \E k \in DOMAIN futures : futures[k].acct = i
        /\ \A k \in DOMAIN futures :
               futures[k].state # "failed" =>
                   /\ IdOf(k) \in DOMAIN account_results
                   /\ DOMAIN account_results[IdOf(k)] = Range(Regions)
                   /\ \A j \in 1..Len(Regions) :
                          account_results[IdOf(k)][Regions[j]] =
                              IF futures[k].log[j].raised THEN FailureMarker
                              ELSE futures[k].log[j].value

\* A returned batch holding a region map with a failure marker and a value
\* for one account, while the other account's task failed and has no key.
C4_Witness ==
    /\ pc = "returned"
    /\ Len(futures) = 2
    /\ Len(Regions) = 2
    /\ futures[1].state = "failed"
    /\ Len(futures[2].log) = 2
    /\ futures[2].log[1].raised /\ ~futures[2].log[2].raised
    /\ DOMAIN account_results = {IdOf(2)}

\* ---------------------------------------------------- session properties
\* C5 as claimed: a thread calls assumed_session at most once for a role
\* identifier.
C5_AssumeInvokedAtMostOnce ==
    \A key \in DOMAIN assumeLog : assumeLog[key].tried <= 1

\* C5, amended: all account_session calls of a thread that return for one
\* role identifier return the identical handle, which is the cached one; a
\* thread's assumed_session succeeds at most once per identifier; and once
\* an identifier is cached no further assumed_session call is made for it.
C5_CacheIdentity ==
    /\ [](/\ \A x, y \in handed : x[1] = y[1] /\ x[2] = y[2] => x[3] = y[3]
          /\ \A x \in handed :
                 /\ x[2] \in DOMAIN ACCOUNT_SESSION[x[1]]
                 /\ ACCOUNT_SESSION[x[1]][x[2]] = x[3]
          /\ \A key \in DOMAIN assumeLog : assumeLog[key].ok <= 1)
    /\ [][\A key \in DOMAIN assumeLog :
              key[2] \in DOMAIN ACCOUNT_SESSION[key[1]] =>
                  assumeLog'[key] = assumeLog[key]]_vars

\* Two accounts resolved to one role identifier: one assumed_session call
\* was made and both tasks were given the same handle.
C5_Witness ==
    /\ Len(futures) = 2
    /\ futures[1].session = futures[2].session
    /\ \E key \in DOMAIN assumeLog :
           /\ assumeLog[key].tried = 1
           /\ assumeLog[key].ok = 1
           /\ <<key[1], key[2], futures[1].session>> \in handed

\* C6: two tasks running at the same time, hence on different pool
\* threads, never hold the same session handle.
C6_NoHandleSharedAcrossWorkers ==
    \A k, l \in Running : k # l => futures[k].session # futures[l].session

\* C7: over all get_org_session calls of the manager the root handle is
\* computed at most once and every call that returns gives that handle.
C7_RootSessionMemoized ==
    /\ orgLog.done <= 1
    /\ Cardinality(orgLog.returned) <= 1
    /\ orgLog.done = 1 => org_session # None /\ orgLog.returned = {org_session}
    /\ orgLog.done = 0 => org_session = None /\ orgLog.returned = {}

\* Two batches have returned on a manager that assumes an org access role:
\* the role was assumed once.
C7_Witness ==
    /\ batches = 2
    /\ pc = "returned"
    /\ org_access_role /\ ~lambda_member
    /\ orgLog.done = 1
    /\ orgLog.tried = 1
    /\ org_session.role = OrgAccessRoleArn

(***************************************************************************)
(* Configuration failures of process_account_set.                          *)
(***************************************************************************)

\* C11: whenever the role or region configuration is missing or malformed
\* the batch never submits a task and never returns normally, and a batch
\* that raised to its caller did so for such a configuration.
C11_ConfigFailureFailsFast ==
    /\ (ConfigMissing \/ ConfigMalformed) /\ batches > 0 =>
           futures = <<>> /\ pc \notin {"gather", "returned"}
    /\ pc = "raised" => ConfigMissing \/ ConfigMalformed

\* C11, amended: a role template format cannot fill raises out of the batch
\* at the first account, before any task is submitted or any operation is
\* called, and a batch over no accounts does not notice it; a missing
\* regions entry is no failure, the task works on the default region; the
\* batch raises to its caller only for such a template or because
\* get_org_session raised.
C11_MalformedRoleFailsFast ==
    /\ ConfigMalformed =>
           /\ futures = <<>> /\ idx = 1 /\ account_results = EmptyMap
           /\ resources # <<>> => pc \notin {"gather", "returned"}
    /\ pc = "raised" =>
           \/ org_session = None
           \/ ConfigMalformed /\ resources # <<>>
    /\ ConfigMissing =>
           \A k \in DOMAIN futures :
               futures[k].state = "done" =>
                   DOMAIN futures[k].region_results = {"us-east-1"}

\* A batch over two accounts with an unfillable template has raised after
\* get_org_session returned.
C11_Witness ==
    /\ pc = "raised"
    /\ org_session # None
    /\ account_role = ArnMalformed
    /\ Len(resources) = 2
    /\ futures = <<>>

(***************************************************************************)
(* The width of the pool: a batch over more accounts than the executor     *)
(* has threads, in a run where nothing fails and no region is configured.  *)
(***************************************************************************)
PoolTargets == 9

InitPool ==
    /\ ouChildren = [g \in Groups |-> {}]
    /\ acctChildren = [g \in Groups |-> {}]
    /\ units = <<>>
    /\ ouTrace = <<>>
    /\ acctQuery = NoQuery
    /\ resources = [i \in 1..PoolTargets |-> Account(AccountId(i))]
    /\ org_access_role = FALSE
    /\ lambda_member = FALSE
    /\ account_role = DefaultRole
    /\ regions_data = [present |-> TRUE, regions |-> <<>>]
    /\ faults = FALSE
    /\ org_session = None
    /\ orgLog = [tried |-> 0, done |-> 0, returned |-> {}]
    /\ ACCOUNT_SESSION = [t \in CallerThreads |-> EmptyMap]
    /\ assumeLog = EmptyMap
    /\ handed = {}
    /\ pc = "idle"
    /\ thread = "MainThread"
    /\ batches = 0
    /\ idx = 1
    /\ futures = <<>>
    /\ identityFailed = {}
    /\ consumed = {}
    /\ account_results = EmptyMap
    /\ IdleCalls

\* The filter names no region: a task is over once it has passed the entry
\* of process_account, and the region loop never runs.
NextPool ==
    \/ BeginBatch
    \/ SubmitAccount
    \/ TaskStart
    \/ TaskEnter
    \/ GatherFuture
    \/ ReturnBatch
    \/ StackProcess

SpecPool == InitPool /\ [][NextPool]_vars

\* C12: at no time are more than 8 tasks of a batch executing, however
\* many accounts the batch was given.
C12_AtMostEightExecuting == Cardinality(Running) <= 8

\* Nine tasks were submitted: eight are executing and the ninth waits in
\* the queue of the pool.
C12_Witness ==
    /\ Len(futures) = 9
    /\ Cardinality(Running) = 8
    /\ Queued = {9}

(***************************************************************************)
(* The gathering of process_account_set.                                   *)
(***************************************************************************)

\* The gathered futures whose task returned a region map.
Folded == {k \in consumed : futures[k].state = "done"}
TaskOf(id) == CHOOSE k \in Folded : IdOf(k) = id

\* C13: whatever the order in which the tasks complete and are gathered,
\* account_results maps the id of each gathered task that returned to the
\* region map that task returned, so the returned dict is a function of the
\* accounts and of what each task did alone.
C13_ResultIndependentOfCompletionOrder ==
    account_results =
        [id \in {IdOf(k) : k \in Folded} |-> futures[TaskOf(id)].region_results]

\* The task submitted second was gathered while the task submitted first
\* was still running.
C13_Witness ==
    /\ pc = "gather"
    /\ Len(futures) = 2
    /\ consumed = {2}
    /\ futures[1].state = "running"
    /\ futures[2].state = "done"
    /\ DOMAIN account_results = {IdOf(2)}

\* C14: no future is awaited and no result is stored in account_results
\* before the submit loop has visited every account: while the loop runs
\* nothing is gathered, and every step that gathers a future or changes
\* account_results of a running batch is taken with the loop finished.
C14_FireAllThenGather ==
    /\ [](pc = "submit" => consumed = {} /\ account_results = EmptyMap)
    /\ [][(consumed' # consumed /\ consumed' # {}) =>
              pc = "gather" /\ idx = Len(resources) + 1]_vars

\* The submit loop is at the second account while the task of the first
\* has already finished: its result is not gathered yet.
C14_Witness ==
    /\ pc = "submit"
    /\ idx = 2
    /\ Len(futures) = 1
    /\ futures[1].state = "done"
    /\ consumed = {}

(***************************************************************************)
(* Where the session of an account is resolved.                            *)
(***************************************************************************)

\* C15: every account the submit loop visited has a task, the session of a
\* task is resolved only after the task was submitted, inside the task, and
\* a rejected resolution ends that task as failed.
C15_ResolvedInsideTask ==
    /\ \A i \in 1..(idx - 1) : \E k \in DOMAIN futures : futures[k].acct = i
    /\ \A k \in DOMAIN futures :
           futures[k].state = "queued" => futures[k].session = None
    /\ \A i \in identityFailed :
           \E k \in DOMAIN futures :
               futures[k].acct = i /\ futures[k].state = "failed"

\* C16: once the batch has returned, an account whose task failed outside
\* the region handling has no entry in account_results, every other task's
\* region map is in account_results exactly as the task returned it, and a
\* region whose operation raised inside the handling is in that map with
\* the failure marker.
C16_EscapedFailureDropsOnlyThatTarget ==
    pc = "returned" =>
        \A k \in DOMAIN futures :
            /\ futures[k].state = "failed" => IdOf(k) \notin DOMAIN account_results
            /\ futures[k].state = "done" =>
                   /\ IdOf(k) \in DOMAIN account_results
                   /\ account_results[IdOf(k)] = futures[k].region_results
                   /\ \A j \in DOMAIN futures[k].log :
                          futures[k].log[j].raised =>
                              account_results[IdOf(k)][futures[k].log[j].region]
                                  = FailureMarker

\* The batch returned: the task of the second account failed as a whole,
\* the task of the first caught a raise in its second region, and
\* account_results holds the first account alone.
C16_Witness ==
    /\ pc = "returned"
    /\ Len(futures) = 2
    /\ Len(Regions) = 2
    /\ futures[2].state = "failed"
    /\ Len(futures[1].log) = 2
    /\ ~futures[1].log[1].raised /\ futures[1].log[2].raised
    /\ DOMAIN account_results = {IdOf(1)}

(***************************************************************************)
(* Progress of a batch.  The thread running process_account_set and the    *)
(* pool threads keep running, and every call of the per-account-region     *)
(* operation comes back: each step of the batch that stays possible is     *)
(* eventually taken.  Whether the caller starts another batch is up to     *)
(* the caller.                                                             *)
(***************************************************************************)
\* A manager without an org access role, with the default account role or
\* with a template format cannot fill, and a filter with no region or with
\* the default region.
InitFair ==
    /\ InitBatch
    /\ ~org_access_role
    /\ account_role \in {DefaultRole, ArnMalformed}
    /\ Len(regions_data.regions) = 0

SpecFair ==
    /\ InitFair
    /\ [][NextBatch]_vars
    /\ WF_vars(SubmitAccount)
    /\ WF_vars(TaskStart)
    /\ WF_vars(TaskEnter)
    /\ WF_vars(TaskRegion)
    /\ WF_vars(GatherFuture)
    /\ WF_vars(ReturnBatch)

\* The states a task moves through: queued, then running its regions one
\* after the other, then done, or failed as a whole when it is started.
TaskMoves(f, g) ==
    \/ g = f
    \/ f.state = "queued" /\ g.state = "entry"
    \/ f.state = "entry" /\ g.state \in {"running", "done", "failed"}
    \/ f.state = "running" /\ g.state \in {"running", "done"}
           /\ g.ridx = f.ridx + 1

\* C17: a batch that has entered its submit loop with a role template that
\* can be resolved eventually returns; each task only moves forward through
\* queued, running and done or failed; and when the batch returns every
\* submitted task has run to its end, none is queued or running.
C17_BatchRunsToCompletion ==
    /\ (pc = "submit" /\ ~ConfigMalformed) ~> (pc = "returned")
    /\ [][\A k \in DOMAIN futures :
              k \in DOMAIN futures' => TaskMoves(futures[k], futures'[k])]_vars
    /\ [](pc = "returned" =>
              \A k \in DOMAIN futures : futures[k].state \in {"done", "failed"})

\* A batch over two accounts returned after both tasks went through the
\* default region.
C17_Witness ==
    /\ pc = "returned"
    /\ Len(futures) = 2
    /\ Len(Regions) = 1
    /\ \A k \in DOMAIN futures : futures[k].state = "done" /\ futures[k].ridx = 2

(***************************************************************************)
(* The role identifier of account_session, computed on its own for role    *)
(* strings built from the pieces of an identifier.                         *)
(***************************************************************************)
MaxRoleTokens == 2
RoleTokens == {"arn", ":aws:iam::", Placeholder, ":role/", "Audit"}
RoleTemplates ==
    (SeqsUpTo(RoleTokens, MaxRoleTokens) \ {<<>>})
        \cup {DefaultRole, ArnTemplate, ArnFixed}

\* The first lines of account_session for the configured role and the one
\* account at hand.
ResolveCall ==
    /\ roleCall = NoCall
    /\ roleCall' = [called |-> TRUE,
                    role |-> ResolveRole(account_role, resources[1].Id)]
    /\ UNCHANGED <<ouVars, resources, configVars, sessionVars, batchVars,
                   sessionCall, ouWalk, fresources>>

InitRole ==
    /\ ouChildren = [g \in Groups |-> {}]
    /\ acctChildren = [g \in Groups |-> {}]
    /\ units = <<>>
    /\ ouTrace = <<>>
    /\ acctQuery = NoQuery
    /\ \E id \in AccountIds : resources = <<Account(id)>>
    /\ org_access_role = FALSE
    /\ lambda_member = FALSE
    /\ account_role \in RoleTemplates
    /\ regions_data = [present |-> FALSE, regions |-> <<>>]
    /\ faults = TRUE
    /\ org_session = None
    /\ orgLog = [tried |-> 0, done |-> 0, returned |-> {}]
    /\ ACCOUNT_SESSION = [t \in CallerThreads |-> EmptyMap]
    /\ assumeLog = EmptyMap
    /\ handed = {}
    /\ pc = "idle"
    /\ thread = "MainThread"
    /\ batches = 0
    /\ idx = 1
    /\ futures = <<>>
    /\ identityFailed = {}
    /\ consumed = {}
    /\ account_results = EmptyMap
    /\ IdleCalls

NextRole == ResolveCall

SpecRole == InitRole /\ [][NextRole]_vars

\* A fully-qualified identifier starts "arn:<partition>:<service>:".
IsQualified(role) ==
    Len(role) >= 2 /\ role[1] = "arn" /\ role[2] = ":aws:iam::"

\* C18: a role string that is a fully-qualified identifier resolves to
\* itself with the account id in place of every placeholder, and every
\* other role string, a bare role name, resolves to
\* "arn:aws:iam::<account id>:role/<role name>".
C18_RoleResolution ==
    roleCall.called =>
        roleCall.role =
            IF IsQualified(account_role)
            THEN Join([k \in DOMAIN account_role |->
                     IF account_role[k] = Placeholder
                     THEN resources[1].Id ELSE account_role[k]])
            ELSE "arn:aws:iam::" \o resources[1].Id \o ":role/"
                     \o Join(account_role)

(***************************************************************************)
(* account_session called directly, several times on one thread, with the  *)
(* org sessions of two managers: one without an org access role, whose     *)
(* org session is the local session, and one that assumed its role.        *)
(***************************************************************************)
MaxSessionCalls == 3
RootSessions ==
    {local_session, assumed_session(OrgAccessRoleArn, local_session, "MainThread", 1)}

SessionCalls == IF sessionCall.called THEN sessionCall.n ELSE 0

\* account_session(root, a, account_role) on the main thread.
CallAccountSession ==
    /\ SessionCalls < MaxSessionCalls
    /\ \E root \in RootSessions, i \in DOMAIN resources, ok \in Accepts :
           LET a == resources[i]
               arn == ResolveRole(account_role, a.Id)
               cnt == AssumeCount("MainThread", arn)
               call == account_session(root, a, account_role,
                                       ACCOUNT_SESSION["MainThread"], "MainThread",
                                       ok, cnt.ok + 1)
               made == IF call.assumed THEN 1 ELSE 0
               failed == call.raised \/ call.keyerror
           IN /\ ACCOUNT_SESSION' =
                     [ACCOUNT_SESSION EXCEPT !["MainThread"] = call.org_accounts]
              /\ assumeLog' = IF call.keyerror THEN assumeLog
                              ELSE Put(assumeLog, <<"MainThread", arn>>,
                                       [tried |-> cnt.tried + made,
                                        ok |-> cnt.ok + (IF call.raised THEN 0 ELSE made)])
              /\ handed' = IF failed THEN handed
                           ELSE handed \cup {<<"MainThread", arn, call.session>>}
              /\ sessionCall' = [called |-> TRUE, n |-> SessionCalls + 1,
                                 root |-> root, account |-> a.Id,
                                 raised |-> failed, session |-> call.session]
    /\ UNCHANGED <<ouVars, resources, configVars, org_session, orgLog, batchVars,
                   roleCall, ouWalk, fresources>>

InitCache ==
    /\ ouChildren = [g \in Groups |-> {}]
    /\ acctChildren = [g \in Groups |-> {}]
    /\ units = <<>>
    /\ ouTrace = <<>>
    /\ acctQuery = NoQuery
    /\ resources = [i \in 1..MaxAccounts |-> Account(AccountId(i))]
    /\ org_access_role = FALSE
    /\ lambda_member = FALSE
    /\ account_role \in RoleConfigs
    /\ regions_data = [present |-> FALSE, regions |-> <<>>]
    /\ faults = TRUE
    /\ org_session = None
    /\ orgLog = [tried |-> 0, done |-> 0, returned |-> {}]
    /\ ACCOUNT_SESSION = [t \in CallerThreads |-> EmptyMap]
    /\ assumeLog = EmptyMap
    /\ handed = {}
    /\ pc = "idle"
    /\ thread = "MainThread"
    /\ batches = 0
    /\ idx = 1
    /\ futures = <<>>
    /\ identityFailed = {}
    /\ consumed = {}
    /\ account_results = EmptyMap
    /\ IdleCalls

NextCache == CallAccountSession

SpecCache == InitCache /\ [][NextCache]_vars

\* C19: the handle an account_session call returns was assumed from the
\* org session passed to that call.
C19_HandleFromPassedRoot ==
    (sessionCall.called /\ ~sessionCall.raised) =>
        sessionCall.session.parent = HandleName(sessionCall.root)

(***************************************************************************)
(* get_ous_for_roots one loop iteration at a time, over child listings     *)
(* that need not form a tree: a group may be listed under several parents  *)
(* and may list one of its own ancestors.  Every group lists at most one   *)
(* child group, so the queue never outgrows the root list.                 *)
(***************************************************************************)

\* One iteration of "while roots": pop the first group, list its children,
\* extend the queue and the set.  calls is the parity of the number of
\* list_children calls made.
WalkOnce_requeue(w) ==
    LET r == Head(w.roots)
        kids == ListChildren(r, "ORGANIZATIONAL_UNIT")
    IN [pc |-> w.pc, calls |-> (w.calls + 1) % 2,
        roots |-> Tail(w.roots) \o <<r>>, folders |-> w.folders \cup Range(kids)]

WalkOnce(w) ==
    LET r == Head(w.roots)
        kids == ListChildren(r, "ORGANIZATIONAL_UNIT")
    IN [pc |-> w.pc, calls |-> (w.calls + 1) % 2,
        roots |-> Tail(w.roots) \o kids, folders |-> w.folders \cup Range(kids)]

\* The loop body runs while the queue is not empty.
WalkStep ==
    /\ ouWalk.pc = "walking"
    /\ ouWalk.roots # <<>>
    /\ ouWalk' = WalkOnce(ouWalk)
    /\ UNCHANGED <<ouVars, resources, configVars, sessionVars, batchVars,
                   roleCall, sessionCall, fresources>>

\* The queue is empty: return folders.
WalkReturn ==
    /\ ouWalk.pc = "walking"
    /\ ouWalk.roots = <<>>
    /\ ouWalk' = [ouWalk EXCEPT !.pc = "returned"]
    /\ UNCHANGED <<ouVars, resources, configVars, sessionVars, batchVars,
                   roleCall, sessionCall, fresources>>

\* get_ous_for_roots has been entered with the list units held:
\* folders = set(roots).
InitWalk ==
    /\ ouChildren \in [Groups -> {S \in SUBSET Groups : Cardinality(S) <= 1}]
    /\ acctChildren = [g \in Groups |-> {}]
    /\ units \in SeqsUpTo(Groups, MaxRoots)
    /\ ouTrace = <<>>
    /\ acctQuery = NoQuery
    /\ resources = <<>>
    /\ faults = TRUE
    /\ IdleBatch
    /\ roleCall = NoCall
    /\ sessionCall = NoCall
    /\ fresources = <<>>
    /\ ouWalk = [pc |-> "walking", calls |-> 0, roots |-> units,
                 folders |-> Range(units)]

NextWalk == WalkStep \/ WalkReturn

\* The loop keeps running: a possible iteration, or the return, is taken.
SpecWalk ==
    /\ InitWalk
    /\ [][NextWalk]_vars
    /\ WF_vars(WalkStep)
    /\ WF_vars(WalkReturn)

\* Some group reachable from the roots is reachable from its own children.
CycleReachable ==
    \E g \in GroupClosure(Range(units)) : g \in GroupClosure(ouChildren[g])

\* C20: get_ous_for_roots returns, with its queue empty, for every child
\* listing and every root list.
C20_WalkTerminates ==
    (ouWalk.pc = "walking") ~> (ouWalk.pc = "returned" /\ ouWalk.roots = <<>>)

\* C20, amended: when no group reachable from the roots is reachable from
\* its own children, get_ous_for_roots returns with its queue empty and
\* with every group reachable from the roots, however often a group is
\* listed or repeated among the roots; when such a group exists it never
\* returns.
C20_WalkTerminatesWithoutCycle ==
    /\ (ouWalk.pc = "walking" /\ ~CycleReachable) ~>
           (/\ ouWalk.pc = "returned"
            /\ ouWalk.roots = <<>>
            /\ ouWalk.folders = GroupClosure(Range(units)))
    /\ [](CycleReachable => ouWalk.pc # "returned")

\* The walk returned from two different roots that list the same child:
\* that child was discovered twice.
C20_Witness ==
    /\ ouWalk.pc = "returned"
    /\ Len(units) = 2
    /\ units[1] # units[2]
    /\ ouChildren[units[1]] # {}
    /\ ouChildren[units[1]] = ouChildren[units[2]]
    /\ ~CycleReachable

====
